---- MODULE Spec2Model ----
(***************************************************************************)
(* Model of EmergencyKnowledgeVectorDB (streamlit_app/backend/vector_db.py) *)
(* : the in-memory triple (documents, embeddings, index), the files of the  *)
(* local storage directory, the PDF source directory and the hash ledger.   *)
(*                                                                          *)
(* Numbers: every score (relevance, similarity, confidence) is an integer   *)
(* in units of 1/Scale, so 0.20 is 2000 and 0.30 is 3000.                   *)
(* Texts: a text is an identifier whose observable properties (keyword      *)
(* matches, word count, length, similarities returned by the embedding      *)
(* model) are tabulated in KeywordMatches, WordCount, ... below.            *)
(* A document is a record; a dict key that is missing is the value Absent.  *)
(* The title and file_path keys are functions of content and source and are *)
(* left out.                                                                *)
(* Every call receives document dicts of its own: a caller that passes the  *)
(* same dict objects to two calls is not modelled.                          *)
(*                                                                          *)
(* The state space of all operations together is too large to enumerate, so *)
(* the operations are composed into several specifications over the same       *)
(* variables and actions: SpecMemory (builds, adds, searches, restarts),    *)
(* SpecStorage (builds, saves, loads, restarts), SpecIngest (builds from    *)
(* the source directory while its files change, restarts), SpecPublish      *)
(* (builds from the source directory and saves) and SpecFiles (saves and    *)
(* loads while files of the storage directory are deleted) and SpecRebuild  *)
(* (a rebuild taken statement by statement while another session searches) *)
(* and SpecClassify (the classifiers applied to single texts and files)     *)
(* and SpecStartup (instances that come up with initialize_with_fallback).  *)
(***************************************************************************)
EXTENDS Integers, Sequences, FiniteSets, TLC

VARIABLES documents, embeddings, index,
          documents_file, embeddings_file, index_file, metadata_file,
          pdf_hashes_file, pdf_dir, last, hist, rebuild

vars == <<documents, embeddings, index, documents_file, embeddings_file,
          index_file, metadata_file, pdf_hashes_file, pdf_dir, last, hist,
          rebuild>>

mem == <<documents, embeddings, index>>
disk == <<documents_file, embeddings_file, index_file, metadata_file>>

\* ---------------------------------------------------------------- bounds
MaxDocs == 2
MaxInput == 2
MaxK == 2
NumBuiltin == 1

\* ------------------------------------------------------------- constants
Scale == 10000
category_similarity_threshold == 3000
content_relevance_threshold == 2000
MinChunkLen == 50
LexicalFallbackPct == 1

Absent == -999999
NoHit == -1
MinScore == -999998

\* ------------------------------------------------------------------ texts
\* number of emergency keywords found in the lower-cased text
KeywordMatches(t) ==
  CASE t = "quake" -> 2
    [] t = "storm" -> 1
    [] t = "recipe" -> 0
    [] t = "hi" -> 0
    [] t = "drop_cover" -> 1
    [] t = "first_aid_kit" -> 2
    [] t = "flood_move" -> 2
    [] t = "cpr_steps" -> 1
    [] t = "dense" -> 8
    [] t = "blank" -> 0
    [] t = "edge" -> 1
    [] t = "long" -> 1

\* len(content_lower.split())
WordCount(t) ==
  CASE t = "quake" -> 10
    [] t = "storm" -> 20
    [] t = "recipe" -> 10
    [] t = "hi" -> 2
    [] t = "dense" -> 1
    [] t = "blank" -> 0
    [] t = "edge" -> 100
    [] t = "long" -> 150
    [] OTHER -> 20

\* len(chunk) after strip()
CharCount(t) == IF t = "hi" THEN 8 ELSE IF t = "blank" THEN 0 ELSE 120

\* cosine similarity of the text with the fixed emergency description
SemanticSimilarity(t) ==
  CASE t = "quake" -> 6000
    [] t = "storm" -> 4000
    [] t = "recipe" -> 500
    [] t = "hi" -> 300
    [] OTHER -> 5000

\* np.argmax over the category similarities: (best category, best score)
BestCategory(t) ==
  CASE t = "quake" -> "earthquake"
    [] t = "storm" -> "hurricane"
    [] t = "recipe" -> "water_safety"
    [] t = "hi" -> "communication"
    [] t = "drop_cover" -> "earthquake"
    [] t = "first_aid_kit" -> "first_aid"
    [] t = "flood_move" -> "flood"
    [] t = "cpr_steps" -> "first_aid"
    [] t = "dense" -> "evacuation"
    [] t = "blank" -> "communication"
    [] t = "edge" -> "flood"
    [] t = "long" -> "flood"

BestScore(t) ==
  CASE t = "quake" -> 4500
    [] t = "storm" -> 2500
    [] t = "recipe" -> 1000
    [] t = "hi" -> 800
    [] OTHER -> 4000

\* --------------------------------------------------------- the classifier
\* C26, variant of is_emergency_relevant_content: the fallback compares the
\* score divided by 100 with 1.0
is_emergency_relevant_content_unit(t, embedFails) ==
  LET keyword_matches == KeywordMatches(t)
      words == WordCount(t)
  IN IF words = 0 THEN <<FALSE, 0>>
     ELSE LET lexical == (keyword_matches * Scale) \div words
              combined == (lexical * 3) \div 10 + (SemanticSimilarity(t) * 7) \div 10
          IN IF embedFails
             THEN <<lexical >= LexicalFallbackPct * Scale, lexical>>
             ELSE <<combined >= content_relevance_threshold, combined>>

\* is_emergency_relevant_content: <<is_relevant, score>>; embedFails is the
\* outcome of self.model.encode inside the try block
is_emergency_relevant_content(t, embedFails) ==
  LET keyword_matches == KeywordMatches(t)
      words == WordCount(t)
  IN IF words = 0 THEN <<FALSE, 0>>
     ELSE LET pct == (keyword_matches * 100) \div words
              lexical == (keyword_matches * Scale) \div words
              combined == (lexical * 3) \div 10 + (SemanticSimilarity(t) * 7) \div 10
          IN IF embedFails
             THEN <<pct >= LexicalFallbackPct, lexical>>
             ELSE <<combined >= content_relevance_threshold, combined>>

\* C25, variant of determine_content_category: the sentinel of a failed
\* classification is reported relevant
determine_content_category_fail_open(t, embedFails) ==
  IF embedFails THEN <<"emergency_guide", 0, TRUE>>
  ELSE <<BestCategory(t), BestScore(t), BestScore(t) >= content_relevance_threshold>>

\* determine_content_category: <<category, confidence, is_relevant>>
determine_content_category(t, embedFails) ==
  IF embedFails THEN <<"emergency_guide", 0, FALSE>>
  ELSE <<BestCategory(t), BestScore(t), BestScore(t) >= content_relevance_threshold>>


\* ------------------------------------------------------------- documents
Doc(category, content, source, chunk_id, relevance_score, category_confidence) ==
  [category |-> category, content |-> content, source |-> source,
   chunk_id |-> chunk_id, relevance_score |-> relevance_score,
   category_confidence |-> category_confidence]

\* a numpy array / faiss index object, or Python's None
None == [none |-> TRUE, rows |-> <<>>]
Arr(rows) == [none |-> FALSE, rows |-> rows]

\* model.encode + faiss.normalize_L2 of one text: the unit vector of t
Encode(t) == [vec |-> t]

RECURSIVE EncodeAll(_)
EncodeAll(docs) ==
  IF docs = <<>> THEN <<>>
  ELSE <<Encode(Head(docs).content)>> \o EncodeAll(Tail(docs))

\* create_emergency_knowledge_base: the hand-written documents
BuiltinSeq == <<"drop_cover", "first_aid_kit", "flood_move", "cpr_steps">>

create_emergency_knowledge_base ==
  [i \in 1..NumBuiltin |->
     Doc(BestCategory(BuiltinSeq[i]), BuiltinSeq[i], "builtin", i - 1, Absent, Absent)]

\* ------------------------------------------------------- the PDF directory
Paths == <<"a.pdf", "b.pdf">>
PathSet == {Paths[i] : i \in 1..Len(Paths)}
\* the versions of each file the directory can hold
FileOptions(p) == IF p = "a.pdf" THEN {"f1", "bad"} ELSE {"f2"}

\* Path(pdf_path).stem
Stem(path) == IF path = "a.pdf" THEN "a" ELSE "b"

\* text_splitter.split_text(extract_text_from_pdf(path)); a file PyPDF2
\* cannot read yields "" and so no chunk
Chunks(f) ==
  CASE f = "f1" -> <<"quake", "recipe">>
    [] f = "f2" -> <<"hi", "storm">>
    [] f = "bad" -> <<>>
    [] f = "f3" -> <<"dense", "hi", "recipe", "quake">>

\* hashlib.md5 of the file's bytes
get_file_hash(f) ==
  CASE f = "f1" -> "md5_f1"
    [] f = "f2" -> "md5_f2"
    [] f = "bad" -> "md5_bad"

NoLedger == [p \in PathSet |-> "none"]

\* process_pdf_file, the loop over chunks from chunk number i (1-based here,
\* chunk_id is i - 1)
RECURSIVE ProcessChunks(_, _, _, _)
ProcessChunks(path, chunks, i, fault) ==
  IF i > Len(chunks) THEN <<>>
  ELSE LET chunk == chunks[i]
           rel == is_emergency_relevant_content(chunk, fault = "relevance")
           cat == determine_content_category(chunk, fault = "category")
           rest == ProcessChunks(path, chunks, i + 1, fault)
       IN IF CharCount(chunk) < MinChunkLen THEN rest
          ELSE IF ~rel[1] THEN rest
          ELSE IF ~cat[3] THEN rest
          ELSE <<Doc(cat[1], chunk, Stem(path), i - 1, rel[2], cat[2])>> \o rest

\* C24, variant of process_pdf_file: chunk_id numbers the kept chunks
process_pdf_file_renumbered(path, f, fault) ==
  LET kept == ProcessChunks(path, Chunks(f), 1, fault)
  IN [j \in 1..Len(kept) |-> [kept[j] EXCEPT !.chunk_id = j - 1]]

process_pdf_file(path, f, fault) ==
  ProcessChunks(path, Chunks(f), 1, fault)

\* C27, variant of ProcessFiles: the loop ends at the first file that yields
\* no document
RECURSIVE ProcessFilesAbort(_, _, _, _, _)
ProcessFilesAbort(i, dir, saved_hashes, force_rebuild, fault) ==
  IF i > Len(Paths) THEN [docs |-> <<>>, hashes |-> NoLedger, processed |-> {}]
  ELSE LET p == Paths[i]
           rest == ProcessFilesAbort(i + 1, dir, saved_hashes, force_rebuild, fault)
       IN IF dir[p] = "absent" THEN rest
          ELSE LET file_hash == get_file_hash(dir[p])
                   changed == force_rebuild \/ saved_hashes[p] = "none"
                              \/ saved_hashes[p] # file_hash
                   docs == IF changed THEN process_pdf_file(p, dir[p], fault)
                           ELSE <<>>
               IN IF changed /\ docs = <<>>
                  THEN [docs |-> <<>>, hashes |-> [NoLedger EXCEPT ![p] = file_hash],
                        processed |-> {p}]
                  ELSE [docs |-> docs \o rest.docs,
                        hashes |-> [rest.hashes EXCEPT ![p] = file_hash],
                        processed |-> IF changed THEN {p} \cup rest.processed
                                      ELSE rest.processed]

\* C21, variant of ProcessFiles: the loop without the force_rebuild test
RECURSIVE ProcessFilesNoForce(_, _, _, _, _)
ProcessFilesNoForce(i, dir, saved_hashes, force_rebuild, fault) ==
  IF i > Len(Paths) THEN [docs |-> <<>>, hashes |-> NoLedger, processed |-> {}]
  ELSE LET p == Paths[i]
           rest == ProcessFilesNoForce(i + 1, dir, saved_hashes, force_rebuild, fault)
       IN IF dir[p] = "absent" THEN rest
          ELSE LET file_hash == get_file_hash(dir[p])
                   changed == saved_hashes[p] = "none" \/ saved_hashes[p] # file_hash
                   docs == IF changed THEN process_pdf_file(p, dir[p], fault)
                           ELSE <<>>
               IN [docs |-> docs \o rest.docs,
                   hashes |-> [rest.hashes EXCEPT ![p] = file_hash],
                   processed |-> IF changed THEN {p} \cup rest.processed
                                 ELSE rest.processed]

\* process_all_pdfs, the loop over pdf_files from position i: the documents
\* collected, the hashes seen and the files processed
RECURSIVE ProcessFiles(_, _, _, _, _)
ProcessFiles(i, dir, saved_hashes, force_rebuild, fault) ==
  IF i > Len(Paths) THEN [docs |-> <<>>, hashes |-> NoLedger, processed |-> {}]
  ELSE LET p == Paths[i]
           rest == ProcessFiles(i + 1, dir, saved_hashes, force_rebuild, fault)
       IN IF dir[p] = "absent" THEN rest
          ELSE LET file_hash == get_file_hash(dir[p])
                   changed == force_rebuild \/ saved_hashes[p] = "none"
                              \/ saved_hashes[p] # file_hash
                   docs == IF changed THEN process_pdf_file(p, dir[p], fault)
                           ELSE <<>>
               IN [docs |-> docs \o rest.docs,
                   hashes |-> [rest.hashes EXCEPT ![p] = file_hash],
                   processed |-> IF changed THEN {p} \cup rest.processed
                                 ELSE rest.processed]

\* process_all_pdfs: the documents returned, the ledger as it is left on
\* disk and the set of files processed
process_all_pdfs(self_documents, dir, ledger, force_rebuild, fault) ==
  IF \A p \in PathSet : dir[p] = "absent"
  THEN [docs |-> create_emergency_knowledge_base, ledger |-> ledger, processed |-> {}]
  ELSE LET r == ProcessFiles(1, dir, ledger, force_rebuild, fault)
       IN [docs |-> IF r.docs # <<>> THEN r.docs
                    ELSE IF self_documents # <<>> THEN self_documents
                    ELSE create_emergency_knowledge_base,
           ledger |-> r.hashes, processed |-> r.processed]

\* build_vector_database, the re-validation loop
RECURSIVE Revalidate(_, _)
Revalidate(docs, fault) ==
  IF docs = <<>> THEN <<>>
  ELSE LET doc == Head(docs)
           rest == Revalidate(Tail(docs), fault)
           rel == is_emergency_relevant_content(doc.content, fault = "relevance")
           cat == determine_content_category(doc.content, fault = "category")
       IN IF /\ doc.relevance_score # Absent
             /\ doc.relevance_score >= content_relevance_threshold
             /\ doc.category_confidence # Absent
             /\ doc.category_confidence >= category_similarity_threshold
          THEN <<doc>> \o rest
          ELSE IF ~rel[1] THEN rest
          ELSE IF ~cat[3] THEN rest
          ELSE <<[doc EXCEPT !.relevance_score = rel[2], !.category = cat[1],
                             !.category_confidence = cat[2]]>> \o rest

\* C17, variant of FilterNew: the filter loop with the score short-circuit of
\* the build's re-validation
FilterNewShortCircuit(docs, fault) == Revalidate(docs, fault)

\* add_documents_to_existing_db, the filter loop
RECURSIVE FilterNew(_, _)
FilterNew(docs, fault) ==
  IF docs = <<>> THEN <<>>
  ELSE LET doc == Head(docs)
           rest == FilterNew(Tail(docs), fault)
           rel == is_emergency_relevant_content(doc.content, fault = "relevance")
           cat == determine_content_category(doc.content, fault = "category")
       IN IF ~rel[1] THEN rest
          ELSE IF ~cat[3] THEN rest
          ELSE <<[doc EXCEPT !.relevance_score = rel[2], !.category = cat[1],
                             !.category_confidence = cat[2]]>> \o rest


\* ----------------------------------------------------------------- search
Queries == {"q_quake"}

\* inner product of the normalised query vector with the vector of text t
Sim(q, t) ==
  IF q = "q_quake"
  THEN CASE t = "quake" -> 8000
         [] t = "drop_cover" -> 7000
         [] OTHER -> 2000
  ELSE CASE t = "flood_move" -> 8000
         [] t = "storm" -> 6000
         [] OTHER -> 1500

\* the best of a non-empty set of index positions: highest inner product,
\* ties to the position inserted first
BestPos(rows, q, S) ==
  CHOOSE i \in S : \A j \in S :
     \/ Sim(q, rows[i].vec) > Sim(q, rows[j].vec)
     \/ Sim(q, rows[i].vec) = Sim(q, rows[j].vec) /\ i <= j

\* faiss IndexFlatIP.search: k labels (0-based positions) in descending
\* score order; when the index holds fewer than k vectors the missing
\* labels are -1
RECURSIVE IndexSearch(_, _, _, _)
IndexSearch(rows, q, k, S) ==
  IF k = 0 THEN <<>>
  ELSE IF S = {} THEN <<[idx |-> NoHit, score |-> MinScore]>> \o IndexSearch(rows, q, k - 1, S)
  ELSE LET b == BestPos(rows, q, S)
       IN <<[idx |-> b - 1, score |-> Sim(q, rows[b].vec)]>>
            \o IndexSearch(rows, q, k - 1, S \ {b})

\* the result loop of search: Python's `idx < len(self.documents)` and
\* self.documents[idx], where idx = -1 addresses the last element and
\* raises IndexError on an empty list
RECURSIVE MapHits(_, _)
MapHits(labels, docs) ==
  IF labels = <<>> THEN [raised |-> FALSE, hits |-> <<>>]
  ELSE LET l == Head(labels)
           rest == MapHits(Tail(labels), docs)
       IN IF ~(l.idx < Len(docs)) THEN rest
          ELSE IF l.idx < 0 /\ Len(docs) = 0 THEN [raised |-> TRUE, hits |-> <<>>]
          ELSE IF rest.raised THEN rest
          ELSE LET doc == IF l.idx < 0 THEN docs[Len(docs) + 1 + l.idx]
                          ELSE docs[l.idx + 1]
               IN [raised |-> FALSE,
                   hits |-> <<[idx |-> l.idx, doc |-> doc, score |-> l.score]>> \o rest.hits]

\* C13, variant of search: the query is encoded before the index is tested
search_encode_first(docs, idx, q, k, embedFails) ==
  IF embedFails THEN [raised |-> TRUE, hits |-> <<>>]
  ELSE IF idx.none THEN [raised |-> FALSE, hits |-> <<>>]
  ELSE MapHits(IndexSearch(idx.rows, q, k, 1..Len(idx.rows)), docs)

search(docs, idx, q, k, embedFails) ==
  IF idx.none THEN [raised |-> FALSE, hits |-> <<>>]
  ELSE IF embedFails THEN [raised |-> TRUE, hits |-> <<>>]
  ELSE MapHits(IndexSearch(idx.rows, q, k, 1..Len(idx.rows)), docs)

\* ------------------------------------------------------------------ files
NoFile == [state |-> "absent", docs |-> <<>>, arr |-> None]
Corrupt == [state |-> "corrupt", docs |-> <<>>, arr |-> None]
\* C11, variant of DocsFile: a dump that writes content and category of each
\* document and loses the score fields
DocsFileNoScores(docs) ==
  [state |-> "ok",
   docs |-> [i \in 1..Len(docs) |->
               [docs[i] EXCEPT !.relevance_score = Absent,
                               !.category_confidence = Absent]],
   arr |-> None]

DocsFile(docs) == [state |-> "ok", docs |-> docs, arr |-> None]
ArrFile(arr) == [state |-> "ok", docs |-> <<>>, arr |-> arr]

NoMeta == [state |-> "absent", num_documents |-> 0]
CorruptMeta == [state |-> "corrupt", num_documents |-> 0]
MetaFile(n) == [state |-> "ok", num_documents |-> n]

\* ---------------------------------------------------------------- history
\* what the run so far has established: built, docs and fresh describe the
\* last build from the source directory with force_rebuild = false (it
\* succeeded without an embedding fault, left docs, nothing but searches and
\* restarts happened since; fresh: the process restarted since);
\* ever_built: some build of this instance has succeeded; saved: the triple
\* the last save_locally wrote, valid if that save returned success
NoSaved == [valid |-> FALSE, documents |-> <<>>, embeddings |-> None, index |-> None]
NoHist == [built |-> FALSE, docs |-> <<>>, fresh |-> FALSE, ever_built |-> FALSE,
           saved |-> NoSaved]
Forget(h) == [NoHist EXCEPT !.ever_built = h.ever_built, !.saved = h.saved]

Last(op, ok) ==
  [op |-> op, ok |-> ok, arg |-> "-", force |-> FALSE, envFail |-> FALSE,
   processed |-> {}, prior |-> NoHist, input |-> <<>>, raised |-> FALSE, k |-> 0,
   hits |-> <<>>, ntotal |-> 0, fault |-> "none", result |-> <<>>]

\* documents a caller passes: one that carries a category and scores assigned
\* elsewhere, one without scores
InputDocSet ==
  {Doc("flood", "quake", "upload", 0, 9000, 9000),
   Doc("unknown", "recipe", "upload", 0, Absent, Absent)}

InputSeqs == UNION {[1..n -> InputDocSet] : n \in 0..MaxInput}

\* the embedding call that raises during one operation: the encode inside
\* the relevance check, the encode inside the category check, or the bulk
\* encode of the surviving documents
Faults == {"none", "relevance", "category", "encode"}

\* a build_vector_database(force_rebuild=True) that runs in one session's
\* thread while other sessions use the same cached instance: pc is the
\* statement it has reached, relevant its local relevant_documents;
\* coherent: documents and index are the finished results of one build (or
\* both as constructed)
NoRebuild == [pc |-> "idle", relevant |-> <<>>, coherent |-> TRUE]

\* __init__
Init ==
  /\ documents = <<>>
  /\ embeddings = None
  /\ index = None
  /\ documents_file = NoFile
  /\ embeddings_file = NoFile
  /\ index_file = NoFile
  /\ metadata_file = NoMeta
  /\ pdf_hashes_file = NoLedger
  /\ pdf_dir = [p \in PathSet |-> "absent"]
  /\ last = Last("init", TRUE)
  /\ hist = NoHist
  /\ rebuild = NoRebuild

\* build_vector_database from line 555 on: the new (documents, embeddings,
\* index) and the value returned
BuildCore(docs, fault) ==
  LET relevant_documents == Revalidate(docs, fault)
      new_embeddings == Arr(EncodeAll(relevant_documents))
  IN IF docs = <<>>
     THEN [documents |-> documents, embeddings |-> embeddings, index |-> index, ok |-> FALSE]
     ELSE IF relevant_documents = <<>>
     THEN [documents |-> relevant_documents, embeddings |-> embeddings, index |-> index, ok |-> FALSE]
     ELSE IF fault = "encode"
     THEN [documents |-> relevant_documents, embeddings |-> embeddings, index |-> index, ok |-> FALSE]
     ELSE [documents |-> relevant_documents, embeddings |-> new_embeddings,
           index |-> new_embeddings, ok |-> TRUE]

\* build_vector_database(documents=None, force_rebuild)
BuildDir(force_rebuild, fault) ==
  LET ing == process_all_pdfs(documents, pdf_dir, pdf_hashes_file, force_rebuild, fault)
      r == BuildCore(ing.docs, fault)
  IN /\ documents' = r.documents
     /\ embeddings' = r.embeddings
     /\ index' = r.index
     /\ pdf_hashes_file' = ing.ledger
     /\ last' = [Last("build", r.ok) EXCEPT !.arg = "dir", !.force = force_rebuild,
                   !.envFail = (fault # "none"),
                   !.processed = ing.processed, !.prior = hist]
     /\ hist' = IF r.ok /\ ~force_rebuild /\ fault = "none"
                THEN [built |-> TRUE, docs |-> r.documents, fresh |-> FALSE,
                      ever_built |-> TRUE, saved |-> hist.saved]
                ELSE [Forget(hist) EXCEPT !.ever_built = hist.ever_built \/ r.ok]
     /\ UNCHANGED <<disk, pdf_dir, rebuild>>

\* build_vector_database(documents=docs)
BuildDocs(docs, fault) ==
  LET r == BuildCore(docs, fault)
  IN /\ documents' = r.documents
     /\ embeddings' = r.embeddings
     /\ index' = r.index
     /\ last' = [Last("build", r.ok) EXCEPT !.arg = "docs",
                   !.envFail = (fault # "none")]
     /\ hist' = [Forget(hist) EXCEPT !.ever_built = hist.ever_built \/ r.ok]
     /\ UNCHANGED <<disk, pdf_dir, pdf_hashes_file, rebuild>>


\* add_documents_to_existing_db(new_documents)
AddCore(new_documents, fault) ==
  LET filtered_documents == FilterNew(new_documents, fault)
      new_embeddings == EncodeAll(filtered_documents)
      extended == documents \o filtered_documents
      stacked == IF embeddings.none THEN Arr(new_embeddings)
                 ELSE Arr(embeddings.rows \o new_embeddings)
      created == IF index.none THEN Arr(<<>>) ELSE index
  IN IF new_documents = <<>> \/ filtered_documents = <<>>
     THEN [documents |-> documents, embeddings |-> embeddings, index |-> index, ok |-> FALSE]
     ELSE IF fault = "encode"
     THEN [documents |-> extended, embeddings |-> embeddings, index |-> index, ok |-> FALSE]
     ELSE [documents |-> extended, embeddings |-> stacked,
           index |-> Arr(created.rows \o new_embeddings), ok |-> TRUE]

AddDocuments(new_documents, fault) ==
  LET r == AddCore(new_documents, fault)
  IN /\ Len(documents) + Len(new_documents) <= MaxDocs
     /\ Len(embeddings.rows) + Len(new_documents) <= MaxDocs
     /\ Len(index.rows) + Len(new_documents) <= MaxDocs
     /\ documents' = r.documents
     /\ embeddings' = r.embeddings
     /\ index' = r.index
     /\ last' = [Last("add", r.ok) EXCEPT !.arg = "docs", !.input = new_documents,
                   !.envFail = (fault # "none"), !.fault = fault]
     /\ hist' = Forget(hist)
     /\ UNCHANGED <<disk, pdf_dir, pdf_hashes_file, rebuild>>

\* search(query, k)
Search(q, k, embedFails) ==
  LET r == search(documents, index, q, k, embedFails)
  IN /\ last' = [Last("search", ~r.raised) EXCEPT !.raised = r.raised, !.k = k,
                   !.hits = r.hits, !.envFail = embedFails,
                   !.ntotal = Len(index.rows)]
     /\ UNCHANGED <<mem, disk, pdf_dir, pdf_hashes_file, hist, rebuild>>

\* the points at which a write of save_locally can fail: before the file is
\* opened (the file keeps its old content) or in the middle of the write
\* (the file is left truncated)
SaveFailPoints == {"none", "embeddings_mid", "index_pre"}

\* save_locally: np.save(None) writes an object array; faiss.write_index(None)
\* raises
SaveLocally(fail) ==
  LET d_ok == fail \notin {"documents_pre", "documents_mid"}
      e_ok == d_ok /\ fail \notin {"embeddings_pre", "embeddings_mid"}
      i_ok == e_ok /\ ~index.none /\ fail \notin {"index_pre", "index_mid"}
      m_ok == i_ok /\ fail # "metadata_mid"
  IN /\ documents_file' = IF d_ok THEN DocsFile(documents)
                          ELSE IF fail = "documents_mid" THEN Corrupt
                          ELSE documents_file
     /\ embeddings_file' = IF e_ok THEN ArrFile(embeddings)
                           ELSE IF fail = "embeddings_mid" THEN Corrupt
                           ELSE embeddings_file
     /\ index_file' = IF i_ok THEN ArrFile(index)
                      ELSE IF e_ok /\ ~index.none /\ fail = "index_mid" THEN Corrupt
                      ELSE index_file
     /\ metadata_file' = IF m_ok THEN MetaFile(Len(documents))
                         ELSE IF i_ok THEN CorruptMeta
                         ELSE metadata_file
     /\ last' = [Last("save", m_ok) EXCEPT !.envFail = (fail # "none")]
     /\ hist' = [hist EXCEPT !.saved =
                   IF m_ok THEN [valid |-> TRUE, documents |-> documents,
                                 embeddings |-> embeddings, index |-> index]
                   ELSE NoSaved]
     /\ UNCHANGED <<mem, pdf_dir, pdf_hashes_file, rebuild>>

LoadFailPoints == {"none", "embeddings"}

\* load_locally: a truncated file, a read error, or an embeddings file that
\* holds an object array (np.load refuses it) raises at that step
LoadLocally(fail) ==
  LET all_exist == /\ documents_file.state # "absent"
                   /\ embeddings_file.state # "absent"
                   /\ index_file.state # "absent"
      d_ok == all_exist /\ documents_file.state = "ok" /\ fail # "documents"
      e_ok == d_ok /\ embeddings_file.state = "ok" /\ ~embeddings_file.arr.none
                   /\ fail # "embeddings"
      i_ok == e_ok /\ index_file.state = "ok" /\ fail # "index"
  IN /\ documents' = IF d_ok THEN documents_file.docs ELSE documents
     /\ embeddings' = IF e_ok THEN embeddings_file.arr ELSE embeddings
     /\ index' = IF i_ok THEN index_file.arr ELSE index
     /\ last' = [Last("load", i_ok) EXCEPT !.envFail = (fail # "none"),
                   !.arg = IF last.op \in {"init", "new"} THEN "fresh" ELSE "used"]
     /\ hist' = Forget(hist)
     /\ UNCHANGED <<disk, pdf_dir, pdf_hashes_file, rebuild>>

\* C12, variant of database_exists: any() in place of all()
database_exists_any ==
  \/ documents_file.state # "absent"
  \/ embeddings_file.state # "absent"
  \/ index_file.state # "absent"

\* database_exists
database_exists ==
  /\ documents_file.state # "absent"
  /\ embeddings_file.state # "absent"
  /\ index_file.state # "absent"

\* the files of the storage directory
StorageFiles == {"documents", "embeddings", "index", "metadata"}

\* somebody deletes one file of the storage directory
RemoveStorageFile(f) ==
  /\ \/ f = "documents" /\ documents_file.state # "absent"
     \/ f = "embeddings" /\ embeddings_file.state # "absent"
     \/ f = "index" /\ index_file.state # "absent"
     \/ f = "metadata" /\ metadata_file.state # "absent"
  /\ documents_file' = IF f = "documents" THEN NoFile ELSE documents_file
  /\ embeddings_file' = IF f = "embeddings" THEN NoFile ELSE embeddings_file
  /\ index_file' = IF f = "index" THEN NoFile ELSE index_file
  /\ metadata_file' = IF f = "metadata" THEN NoMeta ELSE metadata_file
  /\ last' = Last("env", TRUE)
  /\ hist' = [Forget(hist) EXCEPT !.saved = NoSaved]
  /\ UNCHANGED <<mem, pdf_dir, pdf_hashes_file, rebuild>>

\* the texts the classifiers are called on: chunks of the files, a text of one
\* long hyphenated word that contains eight keywords ("dense"), a text of
\* white space only ("blank"), and texts with one keyword in 100 words
\* ("edge") and in 150 words ("long")
Texts == {"quake", "storm", "recipe", "hi", "dense", "blank", "edge", "long"}

\* a call of is_emergency_relevant_content(t)
CheckRelevance(t, embedFails) ==
  /\ last' = [Last("relevance", TRUE) EXCEPT !.arg = t, !.envFail = embedFails,
                !.result = is_emergency_relevant_content(t, embedFails)]
  /\ UNCHANGED <<mem, disk, pdf_dir, pdf_hashes_file, hist, rebuild>>

\* a call of determine_content_category(t)
Categorize(t, embedFails) ==
  /\ last' = [Last("category", TRUE) EXCEPT !.arg = t, !.envFail = embedFails,
                !.result = determine_content_category(t, embedFails)]
  /\ UNCHANGED <<mem, disk, pdf_dir, pdf_hashes_file, hist, rebuild>>

\* the file contents process_pdf_file is called on
PdfContents == {"f1", "f2", "f3", "bad"}

\* a call of process_pdf_file(path) on a file with content f
ProcessPdf(path, f, fault) ==
  /\ last' = [Last("process_pdf", TRUE) EXCEPT !.arg = f, !.fault = fault,
                !.envFail = (fault # "none"),
                !.result = process_pdf_file(path, f, fault)]
  /\ UNCHANGED <<mem, disk, pdf_dir, pdf_hashes_file, hist, rebuild>>

\* documents made of the texts, as a caller passes them without scores
TextDocs == {Doc("unknown", t, "upload", 0, Absent, Absent) : t \in Texts}

\* get_database_stats: document count and the counts per source
Sources == {"a", "b", "builtin", "upload"}

get_database_stats(docs) ==
  IF docs = <<>> THEN [total_documents |-> 0, sources |-> [src \in Sources |-> 0]]
  ELSE [total_documents |-> Len(docs),
        sources |-> [src \in Sources |->
                       Cardinality({i \in 1..Len(docs) : docs[i].source = src})]]

\* a new process constructs a new instance over the same directories
NewInstance ==
  /\ documents' = <<>>
  /\ embeddings' = None
  /\ index' = None
  /\ last' = Last("new", TRUE)
  /\ hist' = [hist EXCEPT !.fresh = hist.built, !.ever_built = FALSE]
  /\ UNCHANGED <<disk, pdf_dir, pdf_hashes_file, rebuild>>

\* the user puts a PDF into the source directory, replaces or removes one
WritePdf(p, f) ==
  /\ pdf_dir[p] # f
  /\ pdf_dir' = [pdf_dir EXCEPT ![p] = f]
  /\ last' = Last("env", TRUE)
  /\ hist' = Forget(hist)
  /\ UNCHANGED <<mem, disk, pdf_hashes_file, rebuild>>

RemovePdf(p) ==
  /\ pdf_dir[p] # "absent"
  /\ pdf_dir' = [pdf_dir EXCEPT ![p] = "absent"]
  /\ last' = Last("env", TRUE)
  /\ hist' = Forget(hist)
  /\ UNCHANGED <<mem, disk, pdf_hashes_file, rebuild>>

\* build_vector_database(force_rebuild=True) up to line 627: ingestion,
\* re-validation and the assignment to self.documents
RebuildDocuments(fault) ==
  LET ing == process_all_pdfs(documents, pdf_dir, pdf_hashes_file, TRUE, fault)
      relevant_documents == Revalidate(ing.docs, fault)
      failed == relevant_documents = <<>>
  IN /\ rebuild.pc = "idle"
     /\ fault \in {"none", "relevance", "category"}
     /\ documents' = relevant_documents
     /\ pdf_hashes_file' = ing.ledger
     /\ rebuild' = [pc |-> IF failed THEN "idle" ELSE "encode",
                    relevant |-> relevant_documents, coherent |-> FALSE]
     /\ last' = IF failed
                THEN [Last("build", FALSE) EXCEPT !.arg = "dir", !.force = TRUE,
                        !.envFail = (fault # "none"), !.processed = ing.processed]
                ELSE Last("build_step", TRUE)
     /\ hist' = Forget(hist)
     /\ UNCHANGED <<embeddings, index, disk, pdf_dir>>

\* lines 633-634: self.embeddings = self.model.encode(texts)
RebuildEncode(fault) ==
  /\ rebuild.pc = "encode"
  /\ fault \in {"none", "encode"}
  /\ embeddings' = IF fault = "encode" THEN embeddings
                    ELSE Arr(EncodeAll(rebuild.relevant))
  /\ rebuild' = [rebuild EXCEPT !.pc = IF fault = "encode" THEN "idle" ELSE "create"]
  /\ last' = IF fault = "encode"
             THEN [Last("build", FALSE) EXCEPT !.arg = "dir", !.force = TRUE,
                     !.envFail = TRUE]
             ELSE Last("build_step", TRUE)
  /\ UNCHANGED <<documents, index, disk, pdf_dir, pdf_hashes_file, hist>>

\* lines 637-638: self.index = faiss.IndexFlatIP(dimension), an empty index
RebuildCreateIndex ==
  /\ rebuild.pc = "create"
  /\ index' = Arr(<<>>)
  /\ rebuild' = [rebuild EXCEPT !.pc = "add"]
  /\ last' = Last("build_step", TRUE)
  /\ UNCHANGED <<documents, embeddings, disk, pdf_dir, pdf_hashes_file, hist>>

\* lines 641-649: self.index.add(self.embeddings) and return True
RebuildAddIndex ==
  /\ rebuild.pc = "add"
  /\ index' = Arr(index.rows \o embeddings.rows)
  /\ rebuild' = [rebuild EXCEPT !.pc = "idle", !.coherent = TRUE]
  /\ last' = [Last("build", TRUE) EXCEPT !.arg = "dir", !.force = TRUE]
  /\ hist' = [Forget(hist) EXCEPT !.ever_built = TRUE]
  /\ UNCHANGED <<documents, embeddings, disk, pdf_dir, pdf_hashes_file>>

\* the in-memory triple: builds, incremental adds and searches of one process
\* and its restarts, over an empty source directory
NextMemory ==
  \/ \E force_rebuild \in BOOLEAN, fault \in Faults : BuildDir(force_rebuild, fault)
  \/ \E docs \in InputSeqs, fault \in Faults : BuildDocs(docs, fault)
  \/ \E docs \in InputSeqs, fault \in Faults : AddDocuments(docs, fault)
  \/ \E q \in Queries, k \in 1..MaxK, embedFails \in BOOLEAN : Search(q, k, embedFails)
  \/ NewInstance

SpecMemory == Init /\ [][NextMemory]_vars

\* persistence: builds, saves and loads over the storage directory
NextStorage ==
  \/ \E docs \in InputSeqs, fault \in Faults : BuildDocs(docs, fault)
  \/ \E fail \in SaveFailPoints : SaveLocally(fail)
  \/ \E fail \in LoadFailPoints : LoadLocally(fail)
  \/ NewInstance

SpecStorage == Init /\ [][NextStorage]_vars

\* ingestion: builds from the source directory as its files come and go,
\* in one process and across restarts
NextIngest ==
  \/ \E force_rebuild \in BOOLEAN, fault \in Faults : BuildDir(force_rebuild, fault)
  \/ NewInstance
  \/ \E p \in PathSet : \E f \in FileOptions(p) : WritePdf(p, f)
  \/ \E p \in PathSet : RemovePdf(p)

SpecIngest == Init /\ [][NextIngest]_vars

\* ingestion as files are put into the source directory or replaced there,
\* followed by saves that meet no write error
NextPublish ==
  \/ \E force_rebuild \in BOOLEAN, fault \in Faults : BuildDir(force_rebuild, fault)
  \/ \E fail \in {"none"} : SaveLocally(fail)
  \/ \E p \in PathSet : \E f \in FileOptions(p) : WritePdf(p, f)

SpecPublish == Init /\ [][NextPublish]_vars

\* the storage directory losing files: builds from the source directory,
\* saves, deletions of single files, and loads
NextFiles ==
  \/ \E force_rebuild \in {FALSE}, fault \in {"none"} : BuildDir(force_rebuild, fault)
  \/ \E fail \in {"none"} : SaveLocally(fail)
  \/ \E fail \in LoadFailPoints : LoadLocally(fail)
  \/ \E f \in StorageFiles : RemoveStorageFile(f)
  \/ \E p \in {"b.pdf"} : \E f \in FileOptions(p) : WritePdf(p, f)

SpecFiles == Init /\ [][NextFiles]_vars

\* one session rebuilds the shared instance statement by statement while
\* another session searches it and files are put into the source directory
NextRebuild ==
  \/ \E fault \in Faults : RebuildDocuments(fault)
  \/ \E fault \in Faults : RebuildEncode(fault)
  \/ RebuildCreateIndex
  \/ RebuildAddIndex
  \/ \E q \in Queries, k \in 1..MaxK, embedFails \in BOOLEAN : Search(q, k, embedFails)
  \/ \E p \in PathSet : \E f \in FileOptions(p) : WritePdf(p, f)

SpecRebuild == Init /\ [][NextRebuild]_vars

\* the classifiers: calls of the relevance check, of the category
\* assignment and of process_pdf_file, and builds of single documents made
\* of the texts
NextClassify ==
  \/ \E t \in Texts, embedFails \in BOOLEAN : CheckRelevance(t, embedFails)
  \/ \E t \in Texts, embedFails \in BOOLEAN : Categorize(t, embedFails)
  \/ \E path \in PathSet, f \in PdfContents, fault \in Faults : ProcessPdf(path, f, fault)
  \/ \E d \in TextDocs, fault \in Faults : BuildDocs(<<d>>, fault)

SpecClassify == Init /\ [][NextClassify]_vars


\* ================================================================= claims
\* embedding rows, document list and index have the same cardinality
Parity ==
  /\ ~embeddings.none
  /\ ~index.none
  /\ Len(embeddings.rows) = Len(documents)
  /\ Len(index.rows) = Len(documents)

\* C1: whenever build_vector_database or add_documents_to_existing_db has
\* just returned success, the number of embedding rows, the length of the
\* document list and the index cardinality are equal.
C1_ParityAfterSuccess ==
  (last.op \in {"build", "add"} /\ last.ok) => Parity

\* C2: once a build of the instance has succeeded, len(embeddings) equals
\* len(documents) in every later state of the instance.
C2_LenAfterBuild ==
  hist.ever_built => Len(embeddings.rows) = Len(documents)

\* C3: a build_vector_database call that returns failure leaves documents,
\* embeddings and index exactly as they were before the call.
C3_FailedBuildNoop ==
  [][(last'.op = "build" /\ ~last'.ok) => mem' = mem]_vars

\* C4: every pair search returns stands for a distinct position the index
\* holds: at most index-cardinality results, each position within the index
\* and within the document list, no position twice.
C4_SearchHitsInIndex ==
  (last.op = "search" /\ ~last.raised) =>
     /\ Len(last.hits) <= last.ntotal
     /\ \A i \in 1..Len(last.hits) :
          /\ last.hits[i].idx \in 0..(last.ntotal - 1)
          /\ last.hits[i].idx < Len(documents)
          /\ \A j \in 1..Len(last.hits) : last.hits[i].idx = last.hits[j].idx => i = j

\* a is b with some elements left out, order kept
RECURSIVE IsSubSeq(_, _)
IsSubSeq(a, b) ==
  IF a = <<>> THEN TRUE
  ELSE IF b = <<>> THEN FALSE
  ELSE IF Head(a) = Head(b) THEN IsSubSeq(Tail(a), Tail(b))
  ELSE IsSubSeq(a, Tail(b))

ContentSeq(docs) == [i \in 1..Len(docs) |-> docs[i].content]

\* C5: a successful add_documents_to_existing_db keeps every earlier document
\* and index row at its position, appends the accepted documents in input
\* order, and leaves index position i holding the embedding of
\* documents[i].content for every i.
C5_AddKeepsCorrespondence ==
  [][(last'.op = "add" /\ last'.ok) =>
       /\ Len(documents') >= Len(documents)
       /\ SubSeq(documents', 1, Len(documents)) = documents
       /\ Len(index'.rows) >= Len(index.rows)
       /\ SubSeq(index'.rows, 1, Len(index.rows)) = index.rows
       /\ IsSubSeq(ContentSeq(SubSeq(documents', Len(documents) + 1, Len(documents'))),
                   ContentSeq(last'.input))
       /\ Len(index'.rows) = Len(documents')
       /\ \A i \in 1..Len(documents') : index'.rows[i] = Encode(documents'[i].content)]_vars

\* C6: a build from the unchanged source directory with force_rebuild=false
\* that follows a successful one (on the same instance or on a fresh instance
\* sharing the hash ledger) succeeds, skips all files and yields the same
\* document list.
C6_IdempotentRebuild ==
  (last.op = "build" /\ last.arg = "dir" /\ ~last.force /\ ~last.envFail
     /\ last.prior.built) =>
     /\ last.ok
     /\ last.processed = {}
     /\ documents = last.prior.docs

\* C7: every document of a saved document list whose source is not "builtin"
\* has relevance_score >= content_relevance_threshold and
\* category_confidence >= category_similarity_threshold.
C7_SavedThresholds ==
  (last.op = "save" /\ last.ok) =>
     \A i \in 1..Len(documents_file.docs) :
        LET doc == documents_file.docs[i]
        IN doc.source # "builtin" =>
             /\ doc.relevance_score >= content_relevance_threshold
             /\ doc.category_confidence >= category_similarity_threshold

NoPdfs == \A p \in PathSet : pdf_dir[p] = "absent"

\* C8: with no PDF file in the source directory, build_vector_database()
\* without documents returns success and leaves a non-empty document list
\* and a non-empty index, whatever the classifiers and the embedding do.
C8_FallbackGuarantee ==
  (last.op = "build" /\ last.arg = "dir" /\ NoPdfs) =>
     /\ last.ok
     /\ documents # <<>>
     /\ ~index.none
     /\ index.rows # <<>>

\* C9: a load_locally call that returns failure leaves documents, embeddings
\* and index exactly as they were before the call.
C9_FailedLoadNoop ==
  [][(last'.op = "load" /\ ~last'.ok) => mem' = mem]_vars

\* the three files are readable and their cardinalities differ
DiskInconsistent ==
  /\ documents_file.state = "ok"
  /\ embeddings_file.state = "ok"
  /\ index_file.state = "ok"
  /\ \/ embeddings_file.arr.none
     \/ Len(embeddings_file.arr.rows) # Len(documents_file.docs)
     \/ Len(index_file.arr.rows) # Len(documents_file.docs)

\* C10: load_locally returns failure when the files on disk are mutually
\* inconsistent, and a load that returns success leaves document count,
\* embedding rows and index cardinality equal.
C10_LoadChecksConsistency ==
  (last.op = "load") =>
     /\ DiskInconsistent => ~last.ok
     /\ last.ok => Parity

\* number of documents per category
CategoryCount(docs, c) == Cardinality({i \in 1..Len(docs) : docs[i].category = c})

\* C11: a load_locally into a fresh instance that follows a successful
\* save_locally and meets no read error returns success and reproduces the
\* saver's state: the same document list (same count, same category
\* distribution), the same embedding rows, the same index contents, and
\* search(q, k) gives the same ordered results as in the saver.
C11_RoundTrip ==
  (last.op = "load" /\ last.arg = "fresh" /\ ~last.envFail /\ hist.saved.valid) =>
     /\ last.ok
     /\ documents = hist.saved.documents
     /\ Len(documents) = Len(hist.saved.documents)
     /\ \A i \in 1..Len(documents) :
          CategoryCount(documents, documents[i].category)
            = CategoryCount(hist.saved.documents, documents[i].category)
     /\ embeddings = hist.saved.embeddings
     /\ index = hist.saved.index
     /\ \A q \in Queries, k \in 1..MaxK :
          search(documents, index, q, k, FALSE)
            = search(hist.saved.documents, hist.saved.index, q, k, FALSE)

\* C11 witness: a fresh instance has loaded what a successful save wrote and
\* holds a non-empty document list and index
C11_Witness ==
  /\ last.op = "load" /\ last.arg = "fresh" /\ last.ok /\ hist.saved.valid
  /\ documents # <<>>
  /\ ~index.none /\ index.rows # <<>>
  /\ documents = hist.saved.documents

\* at least one of the documents, embeddings and index files is missing
RequiredMissing ==
  \/ documents_file.state = "absent"
  \/ embeddings_file.state = "absent"
  \/ index_file.state = "absent"

\* C12: database_exists() is false exactly when one of the documents,
\* embeddings and index files is missing, and a load_locally called then
\* returns failure and leaves documents, embeddings and index unchanged,
\* whatever the state of the metadata manifest and of the hash ledger.
C12_LoadNeedsAllFiles ==
  [][last'.op = "load" =>
       /\ database_exists <=> ~RequiredMissing
       /\ ~database_exists => (~last'.ok /\ mem' = mem)]_vars

\* C12 witness: a load has failed for a missing file while the manifest and
\* a written hash ledger are there and the instance holds documents
C12_Witness ==
  /\ last.op = "load" /\ ~last.ok
  /\ ~database_exists
  /\ metadata_file.state = "ok"
  /\ pdf_hashes_file # NoLedger
  /\ documents # <<>> /\ ~index.none

\* C13: search on an instance whose index is None returns an empty list and
\* does not raise, also when the embedding function would raise (it is not
\* called) and also after failed builds have left documents behind.
C13_SearchWithoutIndex ==
  (last.op = "search" /\ index.none) => (~last.raised /\ last.hits = <<>>)

\* C13 witness: a search has returned on an instance with no index, with an
\* embedding function that raises and documents left by a failed build
C13_Witness ==
  /\ last.op = "search" /\ index.none /\ last.envFail
  /\ documents # <<>>
  /\ ~last.raised /\ last.hits = <<>>

\* C14: no public operation lets an exception escape to its caller when the
\* embedding function or the file system fails: every call returns a success
\* indicator or an empty result.
C14_NoExceptionEscapes ==
  ~last.raised

\* what identifies a document: its origin and its text (the scores and the
\* category are rewritten in place by a re-validation)
DocKey(d) == <<d.source, d.chunk_id, d.content>>

\* every document of docs is in held
AllKept(docs, held) ==
  \A i \in 1..Len(docs) : \E j \in 1..Len(held) : DocKey(held[j]) = DocKey(docs[i])

\* the documents of docs that are chunks of file p
ChunksOf(docs, p) == SelectSeq(docs, LAMBDA d : d.source = Stem(p))

\* file p is in the source directory with the hash the ledger records
Unchanged(p) ==
  /\ pdf_dir[p] # "absent"
  /\ pdf_hashes_file[p] = get_file_hash(pdf_dir[p])

\* C15: a build from the source directory with force_rebuild=false keeps the
\* chunks it held of every unchanged file, also when other files changed, and
\* no build or add_documents_to_existing_db that returns failure removes a
\* document from the list.
C15_RemovalOnlyByRebuild ==
  [][/\ (last'.op = "build" /\ last'.arg = "dir" /\ ~last'.force) =>
          \A p \in PathSet : Unchanged(p) => AllKept(ChunksOf(documents, p), documents')
     /\ (last'.op \in {"build", "add"} /\ ~last'.ok) =>
          AllKept(documents, documents')]_vars

\* C16: while a rebuild of the shared instance runs in another thread, no
\* search returns results taken from a half-built state, that is, from a
\* document list and an index that are not the finished results of the same
\* build.
C16_NoSearchDuringRebuild ==
  [][(last'.op = "search" /\ last'.hits # <<>>) => rebuild.coherent]_vars

\* the document's content passes the relevance check and the category check
\* of a call in which the embedding call named by fault raises
PassesBoth(doc, fault) ==
  /\ is_emergency_relevant_content(doc.content, fault = "relevance")[1]
  /\ determine_content_category(doc.content, fault = "category")[3]

\* C17: add_documents_to_existing_db returns failure and leaves documents,
\* embeddings and index unchanged when new_documents is empty or none of
\* them passes both checks; every document it appends has passed both checks
\* in this call and carries the scores computed in this call, whatever scores
\* it came with.
C17_AddFiltersEveryDocument ==
  [][last'.op = "add" =>
       LET input == last'.input
           fault == last'.fault
           appended == SubSeq(documents', Len(documents) + 1, Len(documents'))
       IN /\ (\A i \in 1..Len(input) : ~PassesBoth(input[i], fault)) =>
               (~last'.ok /\ mem' = mem)
          /\ last'.ok =>
               /\ Len(appended)
                    = Cardinality({i \in 1..Len(input) : PassesBoth(input[i], fault)})
               /\ \A j \in 1..Len(appended) :
                    /\ PassesBoth(appended[j], fault)
                    /\ appended[j].relevance_score =
                         is_emergency_relevant_content(appended[j].content,
                                                       fault = "relevance")[2]
                    /\ appended[j].category_confidence =
                         determine_content_category(appended[j].content,
                                                    fault = "category")[2]]_vars

\* C17 witness: an add has returned failure on an instance that holds a built
\* index, for a new document that came with scores above both thresholds and
\* did not pass the category check
C17_Witness ==
  /\ last.op = "add" /\ ~last.ok
  /\ \E i \in 1..Len(last.input) :
       /\ last.input[i].relevance_score # Absent
       /\ last.input[i].relevance_score >= content_relevance_threshold
       /\ last.input[i].category_confidence >= category_similarity_threshold
  /\ \A i \in 1..Len(last.input) : ~PassesBoth(last.input[i], last.fault)
  /\ documents # <<>> /\ ~index.none /\ Parity

\* C18: for the text of every document held, determine_content_category
\* reports it category-relevant if and only if its best category similarity
\* is >= category_similarity_threshold (0.30); a best similarity in
\* [0.20, 0.30) is reported not relevant.
C18_CategoryThreshold ==
  \A i \in 1..Len(documents) :
     LET r == determine_content_category(documents[i].content, FALSE)
     IN r[3] <=> (r[2] >= category_similarity_threshold)

\* C19: after a build that ran on the builtin fallback set (no PDF file in
\* the source directory) and met no embedding failure, the document list is
\* the fallback set itself: every fallback document, with its hand-assigned
\* category and without relevance_score and category_confidence.
C19_BuiltinBypassFilter ==
  (last.op = "build" /\ last.arg = "dir" /\ NoPdfs /\ ~last.envFail) =>
     /\ Len(documents) = Len(create_emergency_knowledge_base)
     /\ \A i \in 1..Len(documents) :
          /\ documents[i].content = create_emergency_knowledge_base[i].content
          /\ documents[i].category = create_emergency_knowledge_base[i].category
          /\ documents[i].relevance_score = Absent
          /\ documents[i].category_confidence = Absent

\* C20: after every ingestion run the hash ledger on disk holds exactly the
\* files now in the source directory, each with its current hash: no entry
\* for a file that is gone, also when the directory holds no PDF at all.
C20_LedgerMatchesDirectory ==
  (last.op = "build" /\ last.arg = "dir") =>
     \A p \in PathSet :
        pdf_hashes_file[p] = IF pdf_dir[p] = "absent" THEN "none"
                             ELSE get_file_hash(pdf_dir[p])

\* the files an ingestion run has to process: those in the directory for
\* which force_rebuild is set, or the ledger has no entry, or the ledger's
\* entry differs from the current hash
MustProcess(dir, ledger, force_rebuild) ==
  {p \in PathSet : /\ dir[p] # "absent"
                   /\ \/ force_rebuild
                      \/ ledger[p] = "none"
                      \/ ledger[p] # get_file_hash(dir[p])}

\* C21: in an ingestion run over a directory that holds PDF files, the files
\* processed are exactly those for which force_rebuild is set, or the path
\* is not in the ledger, or the hash differs from the ledger's; every other
\* file contributes no chunk to the run's output.
C21_ProcessedIffChanged ==
  [][(last'.op = "build" /\ last'.arg = "dir" /\ ~NoPdfs) =>
       LET must == MustProcess(pdf_dir, pdf_hashes_file, last'.force)
       IN /\ last'.processed = must
          /\ \A fault \in Faults : \A p \in PathSet \ must :
               ChunksOf(ProcessFiles(1, pdf_dir, pdf_hashes_file, last'.force, fault).docs,
                        p) = <<>>]_vars

\* C21 witness: a build without force_rebuild has processed one file, skipped
\* another that is in the directory, and holds the chunks of the first only
C21_Witness ==
  /\ last.op = "build" /\ last.arg = "dir" /\ ~last.force /\ last.ok
  /\ last.processed # {}
  /\ \E p \in PathSet : pdf_dir[p] # "absent" /\ p \notin last.processed
                          /\ ChunksOf(documents, p) = <<>>
  /\ documents # <<>>

\* C22: the relevance_score returned by is_emergency_relevant_content, and
\* the one stored on every chunk process_pdf_file keeps and on every document
\* held, lies in [0, 1], also for a text of few words with many keywords.
C22_RelevanceScoreInUnitInterval ==
  /\ last.op = "relevance" => last.result[2] \in 0..Scale
  /\ last.op = "process_pdf" =>
        \A i \in 1..Len(last.result) : last.result[i].relevance_score \in 0..Scale
  /\ \A i \in 1..Len(documents) :
        documents[i].relevance_score # Absent => documents[i].relevance_score \in 0..Scale

\* the number of words of the text that contain at least one keyword: in
\* "storm" the one keyword occurs in three words, in "dense" the one word
\* contains eight keywords
KeywordWords(t) ==
  CASE t = "quake" -> 2
    [] t = "storm" -> 3
    [] t = "dense" -> 1
    [] t = "edge" -> 1
    [] t = "long" -> 1
    [] OTHER -> 0

\* C23: the lexical score of the relevance check (returned, divided by 100,
\* when the embedding call fails) is the percentage of the text's words that
\* contain at least one keyword: between 0 and 100, a keyword repeated in
\* several words counting once per word.
C23_LexicalScoreIsWordFraction ==
  (last.op = "relevance" /\ last.envFail /\ WordCount(last.arg) > 0) =>
     /\ last.result[2] = (KeywordWords(last.arg) * Scale) \div WordCount(last.arg)
     /\ last.result[2] \in 0..Scale

\* the chunk is long enough and both classifiers accept it
KeepChunk(chunk, fault) ==
  /\ CharCount(chunk) >= MinChunkLen
  /\ is_emergency_relevant_content(chunk, fault = "relevance")[1]
  /\ determine_content_category(chunk, fault = "category")[3]

\* the document a kept chunk becomes: number i of the split (from 1) of path
TaggedChunk(path, chunk, i, fault) ==
  LET rel == is_emergency_relevant_content(chunk, fault = "relevance")
      cat == determine_content_category(chunk, fault = "category")
  IN Doc(cat[1], chunk, Stem(path), i - 1, rel[2], cat[2])

\* the positions of the split whose chunks are to be kept, ascending from i
RECURSIVE KeptPositions(_, _, _)
KeptPositions(chunks, i, fault) ==
  IF i > Len(chunks) THEN <<>>
  ELSE (IF KeepChunk(chunks[i], fault) THEN <<i>> ELSE <<>>)
         \o KeptPositions(chunks, i + 1, fault)

ExpectedChunks(path, f, fault) ==
  LET pos == KeptPositions(Chunks(f), 1, fault)
  IN [j \in 1..Len(pos) |-> TaggedChunk(path, Chunks(f)[pos[j]], pos[j], fault)]

\* the expected chunks of the files of S, in the order of the directory
RECURSIVE ExpectedOfFiles(_, _, _)
ExpectedOfFiles(i, S, dir) ==
  IF i > Len(Paths) THEN <<>>
  ELSE (IF Paths[i] \in S THEN ExpectedChunks(Paths[i], dir[Paths[i]], "none") ELSE <<>>)
         \o ExpectedOfFiles(i + 1, S, dir)

\* C24: process_pdf_file keeps exactly the chunks of at least 50 characters
\* that the relevance check and the category assignment accept, in source
\* order, each with the category, confidence and relevance score computed
\* and chunk_id = position in the split; after a build that processed files
\* and met no embedding failure the document list is these chunks, and
\* get_database_stats counts them and no discarded chunk.
C24_ChunkFilter ==
  [][(last'.op = "build" /\ last'.arg = "dir" /\ ~NoPdfs) =>
       LET expected == ExpectedOfFiles(1, last'.processed, pdf_dir)
           stats == get_database_stats(documents')
       IN /\ \A q \in last'.processed, fault \in Faults :
               process_pdf_file(q, pdf_dir[q], fault) = ExpectedChunks(q, pdf_dir[q], fault)
          /\ (~last'.envFail /\ expected # <<>>) =>
               /\ documents' = expected
               /\ stats.total_documents = Len(expected)
               /\ \A q \in PathSet :
                    stats.sources[Stem(q)] = Len(ChunksOf(expected, q))]_vars

\* C24 witness: a build has processed both files of the directory and holds
\* one chunk of each; the chunk of b.pdf is the second of its split, the
\* first having been discarded
C24_Witness ==
  /\ last.op = "build" /\ last.arg = "dir" /\ last.ok /\ ~last.envFail
  /\ last.processed = PathSet
  /\ Len(documents) = 2
  /\ \E i \in 1..Len(documents) : documents[i].source = "b" /\ documents[i].chunk_id = 1
  /\ get_database_stats(documents).total_documents = 2

\* every document of held is a document of given, as it was given
TakenUnchanged(held, given) ==
  \A i \in 1..Len(held) : \E j \in 1..Len(given) : given[j] = held[i]

\* C25: when the embedding call fails inside the category assignment,
\* determine_content_category returns ("emergency_guide", 0.0, False), and
\* process_pdf_file, the build's re-validation and
\* add_documents_to_existing_db drop every chunk they had classified: the
\* document list takes no document from such a call except those the build
\* passes on unclassified, and none with the sentinel category.
C25_FailedClassificationDrops ==
  [][/\ \A t \in Texts : determine_content_category(t, TRUE) = <<"emergency_guide", 0, FALSE>>
     /\ \A q \in PathSet, f \in PdfContents : process_pdf_file(q, f, "category") = <<>>
     /\ \A docs \in InputSeqs :
          (docs # <<>> /\ BuildDocs(docs, "category")) => TakenUnchanged(documents', docs)
     /\ \A force_rebuild \in BOOLEAN :
          BuildDir(force_rebuild, "category") => documents' = <<>>
     /\ \A docs \in InputSeqs :
          AddDocuments(docs, "category") => (~last'.ok /\ documents' = documents)
     /\ \A i \in 1..Len(documents') : documents'[i].category # "emergency_guide"]_vars

\* C25 witness: an add whose category embedding call raised has returned
\* failure for a document the relevance check accepts, on an instance that
\* holds documents
C25_Witness ==
  /\ last.op = "add" /\ last.fault = "category" /\ ~last.ok
  /\ \E i \in 1..Len(last.input) :
       is_emergency_relevant_content(last.input[i].content, FALSE)[1]
  /\ documents # <<>>
  /\ \A i \in 1..Len(documents) : documents[i].category # "emergency_guide"

\* C26: when the embedding call fails inside the relevance check,
\* is_emergency_relevant_content returns (it does not raise) and reports the
\* text relevant if and only if keyword_matches / words * 100 >= 1.0; a text
\* of zero words is not relevant with score 0.0 whether or not the embedding
\* works.
C26_LexicalFallback ==
  last.op = "relevance" =>
     /\ ~last.raised
     /\ WordCount(last.arg) = 0 => last.result = <<FALSE, 0>>
     /\ (last.envFail /\ WordCount(last.arg) > 0) =>
          (last.result[1] <=>
             KeywordMatches(last.arg) * 100 >= LexicalFallbackPct * WordCount(last.arg))

\* C26 witness: the relevance check has fallen back to the lexical score on
\* a text with exactly one keyword per hundred words and reported it relevant
C26_Witness ==
  /\ last.op = "relevance" /\ last.envFail
  /\ WordCount(last.arg) > 0
  /\ KeywordMatches(last.arg) * 100 = WordCount(last.arg)
  /\ last.result[1]

\* C27: when the source directory holds a file that yields no text, the
\* ingestion run still returns the chunks of every other file it processes,
\* and a build that meets no embedding failure succeeds with them.
C27_BadFileDoesNotAbort ==
  [][(last'.op = "build" /\ last'.arg = "dir" /\ \E p \in PathSet : pdf_dir[p] = "bad") =>
       \A q \in MustProcess(pdf_dir, pdf_hashes_file, last'.force) :
          pdf_dir[q] # "bad" =>
            /\ \A fault \in Faults :
                 ChunksOf(ProcessFiles(1, pdf_dir, pdf_hashes_file, last'.force, fault).docs, q)
                   = process_pdf_file(q, pdf_dir[q], fault)
            /\ (~last'.envFail /\ process_pdf_file(q, pdf_dir[q], "none") # <<>>) =>
                 /\ last'.ok
                 /\ ChunksOf(documents', q) = process_pdf_file(q, pdf_dir[q], "none")]_vars

\* C27 witness: a build has processed a file that yields no text and another
\* file after it, has succeeded and holds the chunks of the other file
C27_Witness ==
  /\ last.op = "build" /\ last.arg = "dir" /\ last.ok
  /\ \E p \in last.processed : pdf_dir[p] = "bad"
  /\ \E q \in last.processed : pdf_dir[q] # "bad" /\ ChunksOf(documents, q) # <<>>

\* C28: a file's hash is in the persisted ledger only once its chunks are
\* part of a successfully built index: after a build that returned failure
\* the ledger does not hold the current hash of a file that build processed,
\* and a build with force_rebuild=false that follows it processes the file
\* again.
C28_LedgerAfterSuccessOnly ==
  [][/\ (last'.op = "build" /\ last'.arg = "dir" /\ ~last'.ok) =>
          \A p \in last'.processed :
             pdf_hashes_file'[p] # get_file_hash(pdf_dir'[p])
     /\ (/\ last.op = "build" /\ last.arg = "dir" /\ ~last.ok
         /\ last'.op = "build" /\ last'.arg = "dir" /\ ~last'.force) =>
          last.processed \subseteq last'.processed]_vars

\* C29: a save_locally call that returns failure leaves the previously saved
\* database intact: with a successfully saved set on disk and no fault of the
\* file system, the documents, embeddings and index files are the same after
\* the failed call as before it.
C29_FailedSaveKeepsFiles ==
  [][(hist.saved.valid /\ last'.op = "save" /\ ~last'.ok /\ ~last'.envFail) =>
        /\ documents_file' = documents_file
        /\ embeddings_file' = embeddings_file
        /\ index_file' = index_file]_vars

\* ------------------------------------------- initialize_with_fallback
\* build_vector_database from line 555 on, on an instance holding m
BuildCoreOn(m, docs, fault) ==
  LET relevant_documents == Revalidate(docs, fault)
      new_embeddings == Arr(EncodeAll(relevant_documents))
  IN IF docs = <<>>
     THEN [documents |-> m.documents, embeddings |-> m.embeddings, index |-> m.index, ok |-> FALSE]
     ELSE IF relevant_documents = <<>> \/ fault = "encode"
     THEN [documents |-> relevant_documents, embeddings |-> m.embeddings, index |-> m.index, ok |-> FALSE]
     ELSE [documents |-> relevant_documents, embeddings |-> new_embeddings,
           index |-> new_embeddings, ok |-> TRUE]

\* load_locally on the instance of the current state
LoadOn(fail) ==
  LET d_ok == database_exists /\ documents_file.state = "ok" /\ fail # "documents"
      e_ok == d_ok /\ embeddings_file.state = "ok" /\ ~embeddings_file.arr.none
                   /\ fail # "embeddings"
      i_ok == e_ok /\ index_file.state = "ok" /\ fail # "index"
  IN [documents |-> IF d_ok THEN documents_file.docs ELSE documents,
      embeddings |-> IF e_ok THEN embeddings_file.arr ELSE embeddings,
      index |-> IF i_ok THEN index_file.arr ELSE index,
      ok |-> i_ok]

\* save_locally of an instance holding m: the four files as the call leaves
\* them and the value returned
SaveOn(m, fail) ==
  LET d_ok == fail \notin {"documents_pre", "documents_mid"}
      e_ok == d_ok /\ fail \notin {"embeddings_pre", "embeddings_mid"}
      i_ok == e_ok /\ ~m.index.none /\ fail \notin {"index_pre", "index_mid"}
      m_ok == i_ok /\ fail # "metadata_mid"
  IN [documents_file |-> IF d_ok THEN DocsFile(m.documents)
                         ELSE IF fail = "documents_mid" THEN Corrupt
                         ELSE documents_file,
      embeddings_file |-> IF e_ok THEN ArrFile(m.embeddings)
                          ELSE IF fail = "embeddings_mid" THEN Corrupt
                          ELSE embeddings_file,
      index_file |-> IF i_ok THEN ArrFile(m.index)
                     ELSE IF e_ok /\ ~m.index.none /\ fail = "index_mid" THEN Corrupt
                     ELSE index_file,
      metadata_file |-> IF m_ok THEN MetaFile(Len(m.documents))
                        ELSE IF i_ok THEN CorruptMeta
                        ELSE metadata_file,
      ok |-> m_ok]

\* one call of a step inside initialize_with_fallback and what it returned
Step(step, ok) == [step |-> step, ok |-> ok]

\* initialize_with_fallback: load; else build from the source directory and
\* save; else build from the builtin documents and save.  last.result is the
\* sequence of the calls made, in order, each with its return value
initialize_with_fallback(loadFail, dirFault, builtinFault, saveFail) ==
  LET l == LoadOn(loadFail)
      ing == process_all_pdfs(l.documents, pdf_dir, pdf_hashes_file, FALSE, dirFault)
      b1 == BuildCoreOn(l, ing.docs, dirFault)
      b2 == BuildCoreOn(b1, create_emergency_knowledge_base, builtinFault)
      m == IF l.ok THEN l ELSE IF b1.ok THEN b1 ELSE b2
      saves == ~l.ok /\ (b1.ok \/ b2.ok)
      s == SaveOn(m, saveFail)
      calls == IF l.ok THEN <<Step("load", TRUE)>>
               ELSE IF b1.ok
               THEN <<Step("load", FALSE), Step("build_dir", TRUE), Step("save", s.ok)>>
               ELSE IF b2.ok
               THEN <<Step("load", FALSE), Step("build_dir", FALSE),
                      Step("build_builtin", TRUE), Step("save", s.ok)>>
               ELSE <<Step("load", FALSE), Step("build_dir", FALSE),
                      Step("build_builtin", FALSE)>>
  IN /\ documents' = m.documents
     /\ embeddings' = m.embeddings
     /\ index' = m.index
     /\ pdf_hashes_file' = IF l.ok THEN pdf_hashes_file ELSE ing.ledger
     /\ documents_file' = IF saves THEN s.documents_file ELSE documents_file
     /\ embeddings_file' = IF saves THEN s.embeddings_file ELSE embeddings_file
     /\ index_file' = IF saves THEN s.index_file ELSE index_file
     /\ metadata_file' = IF saves THEN s.metadata_file ELSE metadata_file
     /\ last' = [Last("initialize", l.ok \/ b1.ok \/ b2.ok) EXCEPT !.result = calls]
     /\ hist' = [Forget(hist) EXCEPT
                   !.ever_built = hist.ever_built \/ (~l.ok /\ (b1.ok \/ b2.ok)),
                   !.saved = IF ~saves THEN hist.saved
                             ELSE IF s.ok
                             THEN [valid |-> TRUE, documents |-> m.documents,
                                   embeddings |-> m.embeddings, index |-> m.index]
                             ELSE NoSaved]
     /\ UNCHANGED <<pdf_dir, rebuild>>

\* start-up: processes that come up with initialize_with_fallback over a
\* source directory that fills, next to callers that save and restart
NextStartup ==
  \/ \E loadFail \in LoadFailPoints, dirFault \in Faults, builtinFault \in Faults,
        saveFail \in SaveFailPoints :
       initialize_with_fallback(loadFail, dirFault, builtinFault, saveFail)
  \/ SaveLocally("none")
  \/ NewInstance
  \/ \E f \in FileOptions("b.pdf") : WritePdf("b.pdf", f)

SpecStartup == Init /\ [][NextStartup]_vars

\* the calls of a kind in the sequence of calls t
CallsAt(t, steps) == {i \in 1..Len(t) : t[i].step \in steps}

\* C30: initialize_with_fallback tries load, the directory build and the
\* builtin build in that order and stops at the first success: a build only
\* after a failed load, the builtin build only after a failed directory
\* build, save only right after a successful build, nothing after a save or
\* a successful load; and it returns True only if the instance then holds a
\* non-empty document list and an index.
C30_FallbackOrder ==
  [][last'.op = "initialize" =>
       LET t == last'.result
       IN /\ t # <<>> /\ t[1].step = "load"
          /\ \A i \in CallsAt(t, {"build_dir", "build_builtin"}) :
                \E j \in 1..(i - 1) : t[j].step = "load" /\ ~t[j].ok
          /\ \A i \in CallsAt(t, {"build_builtin"}) :
                \E j \in 1..(i - 1) : t[j].step = "build_dir" /\ ~t[j].ok
          /\ \A i \in CallsAt(t, {"save"}) :
                /\ i > 1 /\ t[i - 1].step \in {"build_dir", "build_builtin"}
                /\ t[i - 1].ok
                /\ i = Len(t)
          /\ \A i \in CallsAt(t, {"load", "build_dir", "build_builtin"}) :
                (t[i].ok /\ i < Len(t)) => (t[i + 1].step = "save" /\ i + 1 = Len(t))
          /\ Cardinality(CallsAt(t, {"load"})) = 1
          /\ last'.ok => (documents' # <<>> /\ ~index'.none)]_vars

====
